---- MODULE Spec2Model ----
(***************************************************************************)
(* Model of the LLM Agent POC backend proxies.  src/server.js holds three  *)
(* server variants one after another (here "A": lines 1-289, "B": lines    *)
(* 291-557, "C": lines 560-865); src/unnamed/part_000 is a fourth ("D").   *)
(* This module models the POST /api/gemini/chat handler of each variant    *)
(* (the translation of the OpenAI-style request into the Gemini payload,   *)
(* the upstream call, the normalization of the Gemini response), and the   *)
(* POST /api/groq/chat and POST /api/aipipe proxies of each variant.       *)
(***************************************************************************)
EXTENDS Integers, Sequences, FiniteSets, TLC

VARIABLES variant, env, apiKeySet, route, headers, body, pc, fetches, sent, upstream, res

vars == <<variant, env, apiKeySet, route, headers, body, pc, fetches, sent, upstream, res>>

(* ------------------------------ bounds --------------------------------- *)

MaxMsgs == 2

MaxParts == 3

MaxTools == 1

(* --------------------------- generic helpers --------------------------- *)

SeqsUpTo(S, n) == UNION {[1..k -> S] : k \in 0..n}

RECURSIVE JoinWith(_, _)
JoinWith(strs, sep) ==
  IF Len(strs) = 0 THEN ""
  ELSE IF Len(strs) = 1 THEN strs[1]
  ELSE strs[1] \o sep \o JoinWith(Tail(strs), sep)

(* ------------------------------- JSON ---------------------------------- *)
(* A JSON value is a record [kind, atom, members]: atom is the literal of  *)
(* a number or boolean, or the characters of a string; members are the     *)
(* [key, value] pairs of an object, or the values of an array (key "").    *)

JNull == [kind |-> "null", atom |-> "", members |-> <<>>]
JBool(lit) == [kind |-> "boolean", atom |-> lit, members |-> <<>>]
JNum(lit) == [kind |-> "number", atom |-> lit, members |-> <<>>]
JStr(s) == [kind |-> "string", atom |-> s, members |-> <<>>]
JArr(vals) ==
  [kind |-> "array", atom |-> "",
   members |-> [i \in 1..Len(vals) |-> [key |-> "", value |-> vals[i]]]]
JObj(pairs) == [kind |-> "object", atom |-> "", members |-> pairs]
KV(k, v) == [key |-> k, value |-> v]
EmptyObject == JObj(<<>>)

Quote(s) == "\"" \o s \o "\""

RECURSIVE JSONStringify(_)
JSONStringify(v) ==
  CASE v.kind = "null" -> "null"
    [] v.kind = "boolean" -> v.atom
    [] v.kind = "number" -> v.atom
    [] v.kind = "string" -> Quote(v.atom)
    [] v.kind = "array" ->
         "[" \o JoinWith([i \in 1..Len(v.members) |->
                            JSONStringify(v.members[i].value)], ",") \o "]"
    [] v.kind = "object" ->
         "{" \o JoinWith([i \in 1..Len(v.members) |->
                            Quote(v.members[i].key) \o ":" \o
                            JSONStringify(v.members[i].value)], ",") \o "}"

(* The JSON documents the model's inputs can spell. *)
JSONUniverse ==
  { JNull, JBool("true"), JNum("5"), JStr("s"), JArr(<<JNum("1")>>),
    EmptyObject, JObj(<<KV("a", JStr("b"))>>), JObj(<<KV("q", JStr("x"))>>) }

(* JSON.parse: the value whose text is s, or a SyntaxError (ok = FALSE). *)
JSONParse(s) ==
  IF \E v \in JSONUniverse : JSONStringify(v) = s
  THEN [ok |-> TRUE, value |-> CHOOSE v \in JSONUniverse : JSONStringify(v) = s]
  ELSE [ok |-> FALSE, value |-> JNull]

(* ------------------------- request side: inputs ------------------------ *)
(* An element of req.body.messages: null, or an object with a role, an     *)
(* optional string content and an optional name.  Absent strings are "".   *)

Msg(r, hc, c, n) ==
  [kind |-> "object", role |-> r, hasContent |-> hc, content |-> c, name |-> n]
NullMsg == [kind |-> "null", role |-> "", hasContent |-> FALSE, content |-> "", name |-> ""]

(* A native turn of `contents` has one part: a text part or a              *)
(* functionResponse part.                                                   *)
TextPart(s) == [kind |-> "text", text |-> s, name |-> "", response |-> JNull]
FunctionResponsePart(n, r) ==
  [kind |-> "functionResponse", text |-> "", name |-> n, response |-> r]
Turn(r, p) == [role |-> r, part |-> p]

(* An element of req.body.tools. *)
ToolDecl(ty, hf, n, d, hp, p) ==
  [kind |-> "object", type |-> ty, hasFunction |-> hf, name |-> n,
   description |-> d, hasParameters |-> hp, parameters |-> p]
NullTool ==
  [kind |-> "null", type |-> "", hasFunction |-> FALSE, name |-> "",
   description |-> "", hasParameters |-> FALSE, parameters |-> JNull]
FunctionDeclaration(n, d, p) == [name |-> n, description |-> d, parameters |-> p]

(* temperature is counted in tenths: 3 is 0.3 *)
DefaultTemperature == 3

(* x || "" for a string-or-undefined field *)
StrOr(has, s) == IF has THEN s ELSE ""

(* ------------------- variant A: src/server.js 172-193 ------------------ *)

toGeminiContentsA(messages) ==
  LET kept == SelectSeq(messages, LAMBDA m : m.kind = "object" /\ m.hasContent)
  IN [i \in 1..Len(kept) |->
        Turn(IF kept[i].role = "assistant" THEN "model" ELSE "user",
             TextPart(kept[i].content))]

(* a mapping that forgets the default schema *)
toGeminiFunctionDeclarationsNoDefault(tools) ==
  LET kept == SelectSeq(tools, LAMBDA t :
                 t.kind = "object" /\ t.type = "function" /\ t.hasFunction /\ t.name # "")
  IN [i \in 1..Len(kept) |->
        FunctionDeclaration(kept[i].name, kept[i].description, kept[i].parameters)]

toGeminiFunctionDeclarationsA(tools) ==
  LET kept == SelectSeq(tools, LAMBDA t :
                 t.kind = "object" /\ t.type = "function" /\ t.hasFunction /\ t.name # "")
  IN [i \in 1..Len(kept) |->
        FunctionDeclaration(kept[i].name, kept[i].description,
          IF kept[i].hasParameters THEN kept[i].parameters
          ELSE JObj(<<KV("type", JStr("object"))>>))]

(* ------------------- variant B: src/server.js 449-475 ------------------ *)

(* m.role of a null element is a TypeError *)
ThrowsOnNullElement(messages) == \E i \in 1..Len(messages) : messages[i].kind = "null"

toGeminiContentsB(messages) ==
  [i \in 1..Len(messages) |->
     Turn(IF messages[i].role = "assistant" THEN "model" ELSE "user",
          TextPart(StrOr(messages[i].hasContent, messages[i].content)))]

toGeminiFunctionDeclarationsB(tools) ==
  LET kept == SelectSeq(tools, LAMBDA t :
                 t.kind = "object" /\ t.type = "function" /\ t.hasFunction)
  IN [i \in 1..Len(kept) |->
        FunctionDeclaration(kept[i].name, kept[i].description,
          IF kept[i].hasParameters THEN kept[i].parameters ELSE EmptyObject)]

(* ---------- variants C and D: src/server.js 655-693 (inline) ----------- *)

(* the key the catch block wraps an unparseable tool content in *)
RawWrapper(s) == JObj(<<KV("raw", JStr(s))>>)

(* a catch block that swallows the parse failure *)
ToolResponseObjSwallow(m) ==
  LET c == StrOr(m.hasContent, m.content)
  IN IF c = "" THEN EmptyObject
     ELSE IF JSONParse(c).ok THEN JSONParse(c).value
     ELSE EmptyObject

(* try { responseObj = m.content ? JSON.parse(m.content) : {} }
   catch { responseObj = { raw: String(m.content || "") } } *)
ToolResponseObj(m) ==
  LET c == StrOr(m.hasContent, m.content)
  IN IF c = "" THEN EmptyObject
     ELSE IF JSONParse(c).ok THEN JSONParse(c).value
     ELSE RawWrapper(c)

(* m.name || m.tool_name || "tool" *)
ToolName(m) == IF m.name # "" THEN m.name ELSE "tool"

(* role === "assistant" ? "model" : (role === "user" ? "user" : role) *)
GemRole(role) == IF role = "assistant" THEN "model" ELSE role

SystemFromBody(system) == [has |-> system # "", text |-> system]

(* one iteration of `for (const m of messages)` on the accumulator
   [contents, systemInstruction] *)
LoopStep(acc, m) ==
  IF m.role = "system"
  THEN [acc EXCEPT !.systemInstruction =
          [has |-> TRUE, text |-> StrOr(m.hasContent, m.content)]]
  ELSE IF m.role = "tool"
  THEN [acc EXCEPT !.contents =
          Append(@, Turn("tool", FunctionResponsePart(ToolName(m), ToolResponseObj(m))))]
  ELSE [acc EXCEPT !.contents =
          Append(@, Turn(GemRole(m.role), TextPart(StrOr(m.hasContent, m.content))))]

RECURSIVE MessageLoop(_, _)
MessageLoop(acc, messages) ==
  IF Len(messages) = 0 THEN acc
  ELSE MessageLoop(LoopStep(acc, Head(messages)), Tail(messages))

(* tools.filter(...).map(...) of lines 658-664 *)
functionDeclarationsC(tools) ==
  LET kept == SelectSeq(tools, LAMBDA t :
                 t.kind = "object" /\ t.type = "function" /\ t.hasFunction /\ t.name # "")
  IN [i \in 1..Len(kept) |->
        FunctionDeclaration(kept[i].name, kept[i].description,
          IF kept[i].hasParameters THEN kept[i].parameters
          ELSE JObj(<<KV("type", JStr("object"))>>))]

(* --------------------- the payload of each variant --------------------- *)
(* Keys whose value is undefined are dropped by JSON.stringify: has = FALSE *)

Payload(c, si, t, fd, tc) ==
  [contents |-> c, systemInstruction |-> si, temperature |-> t,
   tools |-> [has |-> Len(fd) > 0, functionDeclarations |-> fd],
   hasToolConfig |-> tc]

NoSystem == [has |-> FALSE, text |-> ""]
NoPayload == Payload(<<>>, NoSystem, [has |-> FALSE, value |-> 0], <<>>, FALSE)

(* the array a variant iterates when the field is not an array *)
ArrayOr(kind, arr) == IF kind = "array" THEN arr ELSE <<>>

(* variant A, lines 232-246 *)
PayloadA(b) ==
  Payload(toGeminiContentsA(ArrayOr(b.messagesKind, b.messages)),
          SystemFromBody(b.system),
          [has |-> TRUE,
           value |-> IF b.hasTemperature THEN b.temperature ELSE DefaultTemperature],
          toGeminiFunctionDeclarationsA(ArrayOr(b.toolsKind, b.tools)),
          FALSE)

(* variant B, lines 509-527 *)
PayloadB(b) ==
  LET fd == toGeminiFunctionDeclarationsB(ArrayOr(b.toolsKind, b.tools))
  IN Payload(toGeminiContentsB(ArrayOr(b.messagesKind, b.messages)),
             SystemFromBody(b.system),
             [has |-> TRUE,
              value |-> IF b.hasTemperature THEN b.temperature ELSE DefaultTemperature],
             fd,
             Len(fd) > 0)

(* variants C and D, lines 655-700: no generationConfig at all *)
PayloadC(b) ==
  LET acc == MessageLoop([contents |-> <<>>, systemInstruction |-> SystemFromBody(b.system)],
                         b.messages)
  IN Payload(acc.contents, acc.systemInstruction, [has |-> FALSE, value |-> 0],
             functionDeclarationsC(ArrayOr(b.toolsKind, b.tools)),
             FALSE)

BuildPayload(v, b) ==
  CASE v = "A" -> PayloadA(b)
    [] v = "B" -> PayloadB(b)
    [] OTHER -> PayloadC(b)

(* What the handler does with the body before it awaits fetch:
   "reject" (HTTP 400), "throw" (caught: HTTP 500) or "send". *)
RequestOutcome(v, b) ==
  CASE v = "A" ->
         IF b.model = "" THEN "reject"                       \* line 233
         ELSE IF b.messagesKind \in {"null", "other"} THEN "throw"  \* .filter of a non-array
         ELSE "send"
    [] v = "B" ->
         IF b.messagesKind = "other" THEN "throw"            \* .map of a non-array
         ELSE IF b.messagesKind = "array" /\ ThrowsOnNullElement(b.messages) THEN "throw"
         ELSE "send"
    [] OTHER ->
         IF b.messagesKind # "array" THEN "reject"           \* line 653
         ELSE IF ThrowsOnNullElement(b.messages) THEN "throw" \* m.role, line 674
         ELSE "send"

(* ------------------------ response side: inputs ------------------------ *)
(* A part of the first candidate: null, or an object with an optional text *)
(* and an optional functionCall {name, args, arguments}.                   *)

Part(t, hc, n, ha, a, hg, g) ==
  [kind |-> "object", text |-> t, hasCall |-> hc, name |-> n,
   hasArgs |-> ha, args |-> a, hasArguments |-> hg, arguments |-> g]
NullPart ==
  [kind |-> "null", text |-> "", hasCall |-> FALSE, name |-> "",
   hasArgs |-> FALSE, args |-> JNull, hasArguments |-> FALSE, arguments |-> JNull]

ToolCall(i, n, a) == [id |-> i, type |-> "function", name |-> n, arguments |-> a]

(* crypto.randomUUID(): the k-th value drawn for this response; two draws
   are taken to differ *)
UUID(k) == [scheme |-> "uuid", ms |-> 0, n |-> k]
(* an id without the call index *)
CallIdNoIndex(now, idx) == [scheme |-> "call", ms |-> now, n |-> 0]

(* `call_${Date.now()}_${callIdx++}` *)
CallId(now, idx) == [scheme |-> "call", ms |-> now, n |-> idx]

Message(hr, c, htc, tcs) ==
  [hasRole |-> hr, role |-> IF hr THEN "assistant" ELSE "",
   content |-> c, hasToolCalls |-> htc, tool_calls |-> tcs]
NoMessage == Message(FALSE, "", FALSE, <<>>)

(* variant A, lines 198-224: fromGeminiCandidate *)
RECURSIVE CandidateLoopA(_, _, _)
CandidateLoopA(parts, textOut, tool_calls) ==
  IF Len(parts) = 0 THEN [textOut |-> textOut, tool_calls |-> tool_calls]
  ELSE LET p == Head(parts)
           t == IF p.kind = "object" /\ p.text # ""
                THEN textOut \o (IF textOut # "" THEN "\n" ELSE "") \o p.text
                ELSE textOut
           c == IF p.kind = "object" /\ p.hasCall
                THEN Append(tool_calls,
                       ToolCall(UUID(Len(tool_calls)), p.name,
                                JSONStringify(IF p.hasArgs THEN p.args ELSE EmptyObject)))
                ELSE tool_calls
       IN CandidateLoopA(Tail(parts), t, c)

fromGeminiCandidate(parts) ==
  LET out == CandidateLoopA(parts, "", <<>>)
  IN Message(TRUE, out.textOut, Len(out.tool_calls) > 0, out.tool_calls)

(* variant B, lines 480-502: fromGeminiToOpenAIShape *)
RECURSIVE CandidateLoopB(_, _, _)
CandidateLoopB(parts, content, tool_calls) ==
  IF Len(parts) = 0 THEN [content |-> content, tool_calls |-> tool_calls]
  ELSE LET p == Head(parts)
           t == IF p.kind = "object" /\ p.text # ""
                THEN content \o (IF content # "" THEN "\n" ELSE "") \o p.text
                ELSE content
           c == IF p.kind = "object" /\ p.hasCall
                THEN Append(tool_calls,
                       ToolCall(UUID(Len(tool_calls)), p.name,
                                JSONStringify(IF p.hasArgs THEN p.args ELSE EmptyObject)))
                ELSE tool_calls
       IN CandidateLoopB(Tail(parts), t, c)

fromGeminiToOpenAIShape(parts) ==
  LET out == CandidateLoopB(parts, "", <<>>)
  IN Message(TRUE, out.content, TRUE, out.tool_calls)

(* variants C and D, lines 711-729 *)
ContentTextC(parts) ==
  LET texts == SelectSeq(parts, LAMBDA p : p.text # "")
  IN JoinWith([i \in 1..Len(texts) |-> texts[i].text], "\n")

(* a normalization that forgets the call's arguments *)
CallArgsNone(p) == EmptyObject

(* p.functionCall.args || p.functionCall.arguments || {} *)
CallArgsC(p) ==
  IF p.hasArgs THEN p.args ELSE IF p.hasArguments THEN p.arguments ELSE EmptyObject

RECURSIVE CallLoopC(_, _, _)
CallLoopC(parts, tool_calls, now) ==
  IF Len(parts) = 0 THEN tool_calls
  ELSE LET p == Head(parts)
       IN CallLoopC(Tail(parts),
            IF p.hasCall /\ p.name # ""
            THEN Append(tool_calls,
                   ToolCall(CallId(now, Len(tool_calls)), p.name,
                            JSONStringify(CallArgsC(p))))
            ELSE tool_calls,
            now)

NormalizeC(parts, now) ==
  Message(FALSE, ContentTextC(parts), TRUE, CallLoopC(parts, <<>>, now))


(* The upstream's answer to fetch: the call threw (transport fault), or a  *)
(* response with r.ok, r.status and a body that is JSON or not; data is    *)
(* the parsed body: null, or an object whose candidates are absent, an     *)
(* empty list, or a list whose first candidate has the given parts.        *)
Response(th, ok, st, js, dk, cd, hp, ps) ==
  [threw |-> th, ok |-> ok, status |-> st, bodyIsJson |-> js, dataKind |-> dk,
   candidates |-> cd, hasParts |-> hp, parts |-> ps]
NoResponse == Response(FALSE, FALSE, 0, FALSE, "null", "absent", FALSE, <<>>)
OkData(cd, hp, ps) == Response(FALSE, TRUE, 200, TRUE, "object", cd, hp, ps)

HasCandidate(r) == r.dataKind = "object" /\ r.candidates = "present"

(* cand?.content?.parts || [] *)
FirstParts(r) == IF HasCandidate(r) /\ r.hasParts THEN r.parts ELSE <<>>

Result(st, k, m) == [status |-> st, kind |-> k, message |-> m]

(* variant A, lines 248-267 *)
AfterFetchA(r) ==
  IF r.threw THEN Result(500, "error", NoMessage)
  ELSE IF ~r.ok THEN Result(r.status, "upstream", NoMessage)
  ELSE IF ~r.bodyIsJson THEN Result(500, "error", NoMessage)
  ELSE IF ~HasCandidate(r) THEN Result(200, "chat", Message(TRUE, "", FALSE, <<>>))
  ELSE Result(200, "chat", fromGeminiCandidate(FirstParts(r)))

(* variant B, lines 529-545 *)
AfterFetchB(r) ==
  IF r.threw \/ ~r.bodyIsJson THEN Result(500, "error", NoMessage)
  ELSE IF ~r.ok
  THEN IF r.dataKind = "null" THEN Result(500, "error", NoMessage)   \* data.error
       ELSE Result(r.status, "upstream", NoMessage)
  ELSE Result(200, "chat", fromGeminiToOpenAIShape(FirstParts(r)))

(* variants C and D, lines 702-733 *)
AfterFetchC(r, now) ==
  IF r.threw \/ ~r.bodyIsJson THEN Result(500, "error", NoMessage)
  ELSE IF ~r.ok THEN Result(r.status, "upstream", NoMessage)
  ELSE IF r.dataKind = "null" THEN Result(500, "error", NoMessage)    \* data.candidates
  ELSE IF \E i \in 1..Len(FirstParts(r)) : FirstParts(r)[i].kind = "null"
  THEN Result(500, "error", NoMessage)                                \* p.text
  ELSE Result(200, "chat", NormalizeC(FirstParts(r), now))

AfterFetch(v, r, now) ==
  CASE v = "A" -> AfterFetchA(r)
    [] v = "B" -> AfterFetchB(r)
    [] OTHER -> AfterFetchC(r, now)

(* ----------------------------- input sets ------------------------------ *)

Variants == {"A", "B", "C", "D"}

Body(md, sy, mk, ms, tk, ts, ht, t) ==
  [model |-> md, system |-> sy, messagesKind |-> mk, messages |-> ms,
   toolsKind |-> tk, tools |-> ts, hasTemperature |-> ht, temperature |-> t]

MsgElems ==
  { NullMsg,
    Msg("", FALSE, "", ""),
    Msg("user", TRUE, "hi", ""),
    Msg("assistant", TRUE, "yo", ""),
    Msg("assistant", FALSE, "", ""),
    Msg("system", TRUE, "S1", ""),
    Msg("system", TRUE, "S2", ""),
    Msg("tool", TRUE, "not json", "search"),
    Msg("tool", TRUE, "{oops", ""),
    Msg("tool", TRUE, "5", "search"),
    Msg("tool", TRUE, "{\"a\":\"b\"}", ""),
    Msg("tool", TRUE, "", "search"),
    Msg("tool", TRUE, "null", "search"),
    Msg("tool", TRUE, "\"s\"", "search"),
    Msg("tool", TRUE, "[1]", "search"),
    Msg("tool", TRUE, "true", "search") }

Schema == JObj(<<KV("type", JStr("object")), KV("properties", EmptyObject)>>)

ToolElems ==
  { NullTool,
    ToolDecl("function", TRUE, "search", "web search", TRUE, Schema),
    ToolDecl("function", TRUE, "search", "web search", FALSE, JNull),
    ToolDecl("function", TRUE, "search", "", TRUE, Schema),
    ToolDecl("function", TRUE, "", "", FALSE, JNull),
    ToolDecl("function", FALSE, "", "", FALSE, JNull),
    ToolDecl("other", TRUE, "search", "", FALSE, JNull) }


Temperatures == {<<FALSE, 0>>, <<TRUE, 0>>, <<TRUE, 7>>}

DefaultModel == "gemini-2.5-flash"

Bodies ==
  { Body(DefaultModel, sy, "array", ms, "absent", <<>>, FALSE, 0) :
      sy \in {"", "SYS"}, ms \in SeqsUpTo(MsgElems, MaxMsgs) }
  \cup
  { Body(md, "", mk, <<>>, "absent", <<>>, FALSE, 0) :
      md \in {"", DefaultModel}, mk \in {"absent", "null", "other", "array"} }
  \cup
  { Body(DefaultModel, "", "array", <<Msg("user", TRUE, "hi", "")>>, tk[1], tk[2], t[1], t[2]) :
      tk \in {<<"absent", <<>> >>} \cup {<<"array", ts>> : ts \in SeqsUpTo(ToolElems, MaxTools)},
      t \in Temperatures }

PartElems ==
  { NullPart,
    Part("a", FALSE, "", FALSE, JNull, FALSE, JNull),
    Part("b", FALSE, "", FALSE, JNull, FALSE, JNull),
    Part("", FALSE, "", FALSE, JNull, FALSE, JNull),
    Part("", TRUE, "f", FALSE, JNull, FALSE, JNull),
    Part("", TRUE, "g", TRUE, EmptyObject, FALSE, JNull),
    Part("", TRUE, "f", TRUE, JObj(<<KV("q", JStr("x"))>>), FALSE, JNull),
    Part("", TRUE, "", TRUE, JObj(<<KV("q", JStr("x"))>>), FALSE, JNull),
    Part("", TRUE, "f", FALSE, JNull, TRUE, JObj(<<KV("a", JStr("b"))>>)),
    Part("a", TRUE, "g", TRUE, JObj(<<KV("a", JStr("b"))>>), FALSE, JNull) }

FailedResponses ==
  { Response(TRUE, FALSE, 0, FALSE, "null", "absent", FALSE, <<>>),
    Response(FALSE, FALSE, 429, TRUE, "object", "absent", FALSE, <<>>),
    Response(FALSE, FALSE, 429, TRUE, "null", "absent", FALSE, <<>>),
    Response(FALSE, FALSE, 502, FALSE, "null", "absent", FALSE, <<>>),
    Response(FALSE, TRUE, 200, FALSE, "null", "absent", FALSE, <<>>),
    Response(FALSE, TRUE, 200, TRUE, "null", "absent", FALSE, <<>>) }

Responses ==
  FailedResponses
  \cup { OkData("absent", FALSE, <<>>), OkData("empty", FALSE, <<>>),
         OkData("present", FALSE, <<>>) }
  \cup { OkData("present", TRUE, ps) : ps \in SeqsUpTo(PartElems, MaxParts) }

CannedResponses ==
  { Response(TRUE, FALSE, 0, FALSE, "null", "absent", FALSE, <<>>),
    Response(FALSE, FALSE, 429, TRUE, "object", "absent", FALSE, <<>>),
    OkData("present", TRUE, <<Part("a", FALSE, "", FALSE, JNull, FALSE, JNull)>>) }

CannedBodies ==
  { Body(DefaultModel, "", "array", <<Msg("user", TRUE, "hi", "")>>, "absent", <<>>, FALSE, 0),
    Body("", "", "absent", <<>>, "absent", <<>>, FALSE, 0),
    Body(DefaultModel, "", "array", <<NullMsg>>, "absent", <<>>, FALSE, 0),
    Body(DefaultModel, "", "other", <<>>, "absent", <<>>, FALSE, 0) }

(* Date.now() while the response is normalized *)
Clock == {1000}

(* A credential string: optional surrounding blanks, an optional
   "Bearer " prefix, and the secret.  NoToken is the empty string, which
   also stands for an absent header or environment variable. *)
Tok(padded, bearer, secret) == [padded |-> padded, bearer |-> bearer, secret |-> secret]
NoToken == Tok(FALSE, FALSE, "")

(* process.env of the AI Pipe endpoint: AIPIPE_URL is set or not, and
   AIPIPE_AUTH is the configured token *)
Env(url, auth) == [AIPIPE_URL |-> url, AIPIPE_AUTH |-> auth]
NoEnv == Env(FALSE, NoToken)

(* the request headers the AI Pipe endpoint reads *)
Headers(x, a) == [xAipipeAuth |-> x, authorization |-> a]
NoHeaders == Headers(NoToken, NoToken)

(* --------------------------- the handler ------------------------------- *)
(* POST /api/gemini/chat: A lines 226-268, B lines 504-546, C lines        *)
(* 647-734, D part_000 lines 88-175.  pc is the handler's position:        *)
(* "start" (request received), "awaiting" (suspended in await fetch),      *)
(* "done" (response sent).                                                  *)

NoResult == [count |-> 0, status |-> 0, kind |-> "none", message |-> NoMessage]

Reply(result) ==
  /\ res' = [count |-> res.count + 1, status |-> result.status,
             kind |-> result.kind, message |-> result.message]
  /\ pc' = "done"

InitWith(bodies) ==
  /\ variant \in Variants
  /\ env = NoEnv
  /\ apiKeySet \in BOOLEAN
  /\ route = "gemini"
  /\ headers = NoHeaders
  /\ body \in bodies
  /\ pc = "start"
  /\ fetches = 0
  /\ sent = NoPayload
  /\ upstream = NoResponse
  /\ res = NoResult

Init == InitWith(Bodies)

(* if (!GEMINI_API_KEY) return res.status(500).json(...) *)
GeminiNoKey ==
  /\ pc = "start"
  /\ ~apiKeySet
  /\ Reply(Result(500, "error", NoMessage))
  /\ UNCHANGED <<variant, env, apiKeySet, route, headers, body, fetches, sent, upstream>>

(* the 400 of a missing model (A) or of a messages value that is no array (C, D) *)
GeminiReject ==
  /\ pc = "start"
  /\ apiKeySet
  /\ RequestOutcome(variant, body) = "reject"
  /\ Reply(Result(400, "error", NoMessage))
  /\ UNCHANGED <<variant, env, apiKeySet, route, headers, body, fetches, sent, upstream>>

(* the translation throws a TypeError: the catch block answers 500 *)
GeminiThrow ==
  /\ pc = "start"
  /\ apiKeySet
  /\ RequestOutcome(variant, body) = "throw"
  /\ Reply(Result(500, "error", NoMessage))
  /\ UNCHANGED <<variant, env, apiKeySet, route, headers, body, fetches, sent, upstream>>

(* the payload is built and posted; the handler suspends in await fetch *)
GeminiFetch ==
  /\ pc = "start"
  /\ apiKeySet
  /\ RequestOutcome(variant, body) = "send"
  /\ sent' = BuildPayload(variant, body)
  /\ fetches' = fetches + 1
  /\ pc' = "awaiting"
  /\ UNCHANGED <<variant, env, apiKeySet, route, headers, body, upstream, res>>

(* fetch settles with one of the given answers at some clock reading; the
   rest of the handler runs to its response *)
GeminiAnswer(responses) ==
  /\ pc = "awaiting"
  /\ \E r \in responses, now \in Clock :
       /\ upstream' = r
       /\ Reply(AfterFetch(variant, r, now))
  /\ UNCHANGED <<variant, env, apiKeySet, route, headers, body, fetches, sent>>

Next ==
  \/ GeminiNoKey
  \/ GeminiReject
  \/ GeminiThrow
  \/ GeminiFetch
  \/ GeminiAnswer(CannedResponses)

Spec == Init /\ [][Next]_vars

(* The same handler under every upstream answer, for a few request bodies. *)
InitResponse == InitWith(CannedBodies)

NextResponse ==
  \/ GeminiNoKey
  \/ GeminiReject
  \/ GeminiThrow
  \/ GeminiFetch
  \/ GeminiAnswer(Responses)

SpecResponse == InitResponse /\ [][NextResponse]_vars

(* ------------------------- POST /api/groq/chat ------------------------- *)
(* A lines 129-164, B lines 410-442, C lines 612-641, D part_000 lines     *)
(* 50-79.  apiKeySet is GROQ_API_KEY here; sent is the JSON body posted to *)
(* the chat completions endpoint: messages is absent, null, a value that   *)
(* is no array ("other") or an array.                                       *)

DefaultGroqModel == "openai/gpt-oss-120b"

GroqPayload(md, mk, ms, t, tc) ==
  [model |-> md, messagesKind |-> mk, messages |-> ms, temperature |-> t,
   tool_choice |-> tc]

NoGroqPayload == GroqPayload("", "absent", <<>>, 0, "")

(* temperature = 0.3 (A); req.body.temperature ?? 0.3 (B, C, D) *)
GroqTemperature(b) == IF b.hasTemperature THEN b.temperature ELSE DefaultTemperature

(* variant A: { model, messages, temperature, tools } *)
GroqPayloadA(b) ==
  GroqPayload(b.model, b.messagesKind, b.messages, GroqTemperature(b), "")

(* variant B: messages: req.body.messages, whatever it is *)
GroqPayloadB(b) ==
  GroqPayload(b.model, b.messagesKind, b.messages, GroqTemperature(b), "")

(* variants C, D: if (!Array.isArray(body.messages)) body.messages = [] *)
GroqMessagesC(b) ==
  IF b.messagesKind = "array" THEN <<"array", b.messages>> ELSE <<"array", <<>> >>

(* variants C, D: { ...body, model, tool_choice: "auto", temperature } *)
GroqPayloadC(b) ==
  GroqPayload(IF b.model # "" THEN b.model ELSE DefaultGroqModel,
              GroqMessagesC(b)[1], GroqMessagesC(b)[2], GroqTemperature(b), "auto")

BuildGroqPayload(v, b) ==
  CASE v = "A" -> GroqPayloadA(b)
    [] v = "B" -> GroqPayloadB(b)
    [] OTHER -> GroqPayloadC(b)

(* variant A: if (!model || !Array.isArray(messages)) -> 400 *)
GroqRejects(v, b) == v = "A" /\ (b.model = "" \/ b.messagesKind # "array")

(* variant A, lines 155-161 *)
GroqAfterFetchA(r) ==
  IF r.threw THEN Result(500, "error", NoMessage)
  ELSE IF ~r.ok THEN Result(r.status, "upstream", NoMessage)
  ELSE IF ~r.bodyIsJson THEN Result(500, "error", NoMessage)
  ELSE Result(200, "relay", NoMessage)

(* variant B, lines 434-438 *)
GroqAfterFetchB(r) ==
  IF r.threw \/ ~r.bodyIsJson THEN Result(500, "error", NoMessage)
  ELSE IF ~r.ok
  THEN IF r.dataKind = "null" THEN Result(500, "error", NoMessage)   \* data.error
       ELSE Result(r.status, "upstream", NoMessage)
  ELSE Result(200, "relay", NoMessage)

(* variants C and D, lines 633-635 *)
GroqAfterFetchC(r) ==
  IF r.threw \/ ~r.bodyIsJson THEN Result(500, "error", NoMessage)
  ELSE IF ~r.ok THEN Result(r.status, "upstream", NoMessage)
  ELSE Result(200, "relay", NoMessage)

GroqAfterFetch(v, r) ==
  CASE v = "A" -> GroqAfterFetchA(r)
    [] v = "B" -> GroqAfterFetchB(r)
    [] OTHER -> GroqAfterFetchC(r)

GroqMsgElems == { Msg("user", TRUE, "hi", ""), Msg("assistant", TRUE, "yo", "") }

GroqBodies ==
  { Body(md, "", "array", ms, "absent", <<>>, t[1], t[2]) :
      md \in {"", DefaultGroqModel}, ms \in SeqsUpTo(GroqMsgElems, MaxMsgs),
      t \in Temperatures }
  \cup
  { Body(md, "", mk, <<>>, "absent", <<>>, t[1], t[2]) :
      md \in {"", DefaultGroqModel}, mk \in {"absent", "null", "other"},
      t \in Temperatures }

InitGroq ==
  /\ variant \in Variants
  /\ env = NoEnv
  /\ apiKeySet \in BOOLEAN
  /\ route = "groq"
  /\ headers = NoHeaders
  /\ body \in GroqBodies
  /\ pc = "start"
  /\ fetches = 0
  /\ sent = NoGroqPayload
  /\ upstream = NoResponse
  /\ res = NoResult

(* if (!GROQ_API_KEY) return res.status(500).json(...) *)
GroqNoKey ==
  /\ pc = "start"
  /\ ~apiKeySet
  /\ Reply(Result(500, "error", NoMessage))
  /\ UNCHANGED <<variant, env, apiKeySet, route, headers, body, fetches, sent, upstream>>

(* variant A: return res.status(400).json({ error: "Missing model or messages" }) *)
GroqReject ==
  /\ pc = "start"
  /\ apiKeySet
  /\ GroqRejects(variant, body)
  /\ Reply(Result(400, "error", NoMessage))
  /\ UNCHANGED <<variant, env, apiKeySet, route, headers, body, fetches, sent, upstream>>

(* the payload is posted; the handler suspends in await fetch *)
GroqFetch ==
  /\ pc = "start"
  /\ apiKeySet
  /\ ~GroqRejects(variant, body)
  /\ sent' = BuildGroqPayload(variant, body)
  /\ fetches' = fetches + 1
  /\ pc' = "awaiting"
  /\ UNCHANGED <<variant, env, apiKeySet, route, headers, body, upstream, res>>

(* fetch settles; the rest of the handler runs to its response *)
GroqAnswer ==
  /\ pc = "awaiting"
  /\ \E r \in FailedResponses \cup CannedResponses :
       /\ upstream' = r
       /\ Reply(GroqAfterFetch(variant, r))
  /\ UNCHANGED <<variant, env, apiKeySet, route, headers, body, fetches, sent>>

NextGroq ==
  \/ GroqNoKey
  \/ GroqReject
  \/ GroqFetch
  \/ GroqAnswer

SpecGroq == InitGroq /\ [][NextGroq]_vars

(* --------------------------- POST /api/aipipe -------------------------- *)
(* A lines 69-126, B lines 375-407, C lines 776-850, D part_000 lines      *)
(* 212-243.  body is [hasInput, input]; upstream is what the network would *)
(* answer to the first and to a second call; sent is the call made; res    *)
(* carries the JSON replied and the x-aipipe-mode / x-aipipe-auth-mode     *)
(* response headers ("" when the header is not set).                        *)

PipeBody(has, input) == [hasInput |-> has, input |-> input]

(* the answer to one fetch: it throws, or a status and a body text *)
PipeResponse(th, st, text) == [threw |-> th, status |-> st, text |-> text]

(* r.ok *)
Ok(r) == r.status \in 200..299

PipeCall(hasAuth, token, b) == [hasAuthorization |-> hasAuth, authorization |-> token, body |-> b]
NoPipeCall == PipeCall(FALSE, NoToken, PipeBody(FALSE, ""))

PipeResult(st, data, mode, authMode) ==
  [status |-> st, data |-> data, mode |-> mode, authMode |-> authMode]

NoPipeResult == [count |-> 0, status |-> 0, data |-> JNull, mode |-> "", authMode |-> ""]

(* a JavaScript string is truthy when it is not empty *)
Truthy(t) == t.padded \/ t.bearer \/ t.secret # ""

(* String.prototype.trim *)
Trim(t) == [t EXCEPT !.padded = FALSE]

(* variants C: normalizeToken, lines 800-808 (a quoted token is not drawn) *)
normalizeToken(raw) ==
  IF ~Truthy(Trim(raw)) THEN NoToken ELSE [Trim(raw) EXCEPT !.bearer = TRUE]

(* new Date().toISOString() *)
ISOString(now) == "epoch+" \o ToString(now) \o "ms"

Step(name) == JObj(<<KV("name", JStr(name)), KV("status", JStr("ok"))>>)

MockReply(input, summary, now) ==
  JObj(<<KV("ok", JBool("true")),
         KV("engine", JStr("mock")),
         KV("received_input", JStr(input)),
         KV("steps", JArr(<<Step("parse"), Step("analyze"), Step("summarize")>>)),
         KV("summary", JStr(summary)),
         KV("timestamp", JStr(ISOString(now)))>>)

(* `AI Pipe mock processed: "${input}"` *)
Processed(input) == "AI Pipe mock processed: \"" \o input \o "\""

(* variant A: String(req.body?.input ?? ""), lines 81-94 *)
MockA(b, now) ==
  LET input == IF b.hasInput THEN b.input ELSE ""
  IN MockReply(input, Processed(input), now)

(* variants C, D: const { input = "" } = req.body || {}, lines 780-792 *)
MockC(b, now) ==
  LET input == IF b.hasInput THEN b.input ELSE ""
  IN MockReply(input,
               IF input # "" THEN Processed(input)
               ELSE "AI Pipe mock: no input provided.", now)

(* { ok: false, error } *)
Failure(msg) == JObj(<<KV("ok", JBool("false")), KV("error", JStr(msg))>>)

(* the catch block's { ok: false, error: err.message } (A, B, C) or
   { error: { message } } (D) *)
Caught(v) ==
  IF v = "D" THEN JObj(<<KV("error", JObj(<<KV("message", JStr("failed"))>>))>>)
  ELSE Failure("failed")

(* an error reply that drops the upstream body *)
EnvelopeMasked(r) ==
  JObj(<<KV("ok", JBool("false")),
         KV("error", JStr("AI Pipe upstream " \o ToString(r.status)))>>)

(* variant A: { ok: false, error: `AI Pipe upstream ${status}`, detail: text } *)
Envelope(r) ==
  JObj(<<KV("ok", JBool("false")),
         KV("error", JStr("AI Pipe upstream " \o ToString(r.status))),
         KV("detail", JStr(r.text))>>)

(* variant C: catch { payload = { raw: text } } *)
PipeRaw(text) == JObj(<<KV("raw", JStr(text))>>)

(* the token the variant sends as Authorization (NoToken: none) *)
PickToken(v, e, h) ==
  CASE v = "A" -> IF Truthy(h.xAipipeAuth) THEN h.xAipipeAuth ELSE e.AIPIPE_AUTH
    [] v = "B" -> IF Truthy(Trim(h.xAipipeAuth)) THEN Trim(h.xAipipeAuth)
                  ELSE Trim(e.AIPIPE_AUTH)
    [] v = "C" -> IF Truthy(normalizeToken(h.xAipipeAuth)) THEN normalizeToken(h.xAipipeAuth)
                  ELSE IF Truthy(normalizeToken(h.authorization))
                       THEN normalizeToken(h.authorization)
                       ELSE normalizeToken(e.AIPIPE_AUTH)
    [] OTHER -> NoToken

(* the value of x-aipipe-auth-mode the variant computes *)
AuthMode(v, e, h) ==
  CASE v = "A" -> IF Truthy(e.AIPIPE_AUTH) THEN "env"
                  ELSE IF Truthy(h.xAipipeAuth) THEN "header" ELSE "none"
    [] v = "B" -> IF Truthy(Trim(h.xAipipeAuth)) THEN "client-x-aipipe-auth"
                  ELSE IF Truthy(Trim(e.AIPIPE_AUTH)) THEN "env" ELSE "none"
    [] v = "C" -> IF Truthy(normalizeToken(h.xAipipeAuth)) THEN "client-x-aipipe-auth"
                  ELSE IF Truthy(normalizeToken(h.authorization)) THEN "client-authorization"
                  ELSE IF Truthy(normalizeToken(e.AIPIPE_AUTH)) THEN "env" ELSE "none"
    [] OTHER -> ""

(* x-aipipe-mode and x-aipipe-auth-mode as set before the upstream call:
   A sets both first (lines 75-76), B sets both first with mode "proxy"
   (lines 380-381), C sets the mode in the mock branch only (line 781), D
   sets neither *)
EarlyMode(v, e) ==
  CASE v = "A" -> IF e.AIPIPE_URL THEN "proxy" ELSE "mock"
    [] v = "B" -> "proxy"
    [] v = "C" -> IF e.AIPIPE_URL THEN "" ELSE "mock"
    [] OTHER -> ""

EarlyAuthMode(v, e, h) == IF v \in {"A", "B"} THEN AuthMode(v, e, h) ELSE ""

(* what the handler does before any upstream call: it replies (mock, 500,
   401) or it calls upstream *)
PipeStart(v, e, h, b, now) ==
  CASE v = "A" ->
         IF ~e.AIPIPE_URL THEN [call |-> FALSE, status |-> 200, data |-> MockA(b, now)]
         ELSE IF ~Truthy(PickToken(v, e, h))
         THEN [call |-> FALSE, status |-> 401, data |-> Failure("Unauthorized")]
         ELSE [call |-> TRUE, status |-> 0, data |-> JNull]
    [] v = "B" ->
         IF ~e.AIPIPE_URL
         THEN [call |-> FALSE, status |-> 500, data |-> Failure("AIPIPE_URL not configured")]
         ELSE IF ~Truthy(PickToken(v, e, h))
         THEN [call |-> FALSE, status |-> 401, data |-> Failure("Unauthorized")]
         ELSE [call |-> TRUE, status |-> 0, data |-> JNull]
    [] OTHER ->
         IF ~e.AIPIPE_URL THEN [call |-> FALSE, status |-> 200, data |-> MockC(b, now)]
         ELSE [call |-> TRUE, status |-> 0, data |-> JNull]

(* variant A, lines 113-125 *)
PipeAfterFetchA(r, e, h) ==
  IF r.threw
  THEN PipeResult(500, Caught("A"), EarlyMode("A", e), EarlyAuthMode("A", e, h))
  ELSE IF ~Ok(r)
  THEN PipeResult(r.status, Envelope(r), EarlyMode("A", e), EarlyAuthMode("A", e, h))
  ELSE IF ~JSONParse(r.text).ok
  THEN PipeResult(500, Caught("A"), EarlyMode("A", e), EarlyAuthMode("A", e, h))
  ELSE PipeResult(200, JSONParse(r.text).value, EarlyMode("A", e), EarlyAuthMode("A", e, h))

(* variant B, lines 400-406: res.status(r.status); res.json(await r.json()) *)
PipeAfterFetchB(r, e, h) ==
  IF r.threw \/ ~JSONParse(r.text).ok
  THEN PipeResult(500, Caught("B"), EarlyMode("B", e), EarlyAuthMode("B", e, h))
  ELSE PipeResult(r.status, JSONParse(r.text).value, EarlyMode("B", e), EarlyAuthMode("B", e, h))

(* variant C, lines 831-849 *)
PipeAfterFetchC(r, e, h) ==
  IF r.threw THEN PipeResult(500, Caught("C"), "", "")
  ELSE PipeResult(r.status,
                  IF JSONParse(r.text).ok THEN JSONParse(r.text).value ELSE PipeRaw(r.text),
                  "proxy", AuthMode("C", e, h))

(* variant D, part_000 lines 220-222 and 239-242 *)
PipeAfterFetchD(r) ==
  IF r.threw \/ ~JSONParse(r.text).ok THEN PipeResult(500, Caught("D"), "", "")
  ELSE PipeResult(IF Ok(r) THEN 200 ELSE r.status, JSONParse(r.text).value, "", "")

PipeAfterFetch(v, r, e, h) ==
  CASE v = "A" -> PipeAfterFetchA(r, e, h)
    [] v = "B" -> PipeAfterFetchB(r, e, h)
    [] v = "C" -> PipeAfterFetchC(r, e, h)
    [] OTHER -> PipeAfterFetchD(r)

EnvTokens == { NoToken, Tok(FALSE, TRUE, "envtok"), Tok(TRUE, FALSE, "") }

OverrideTokens ==
  { NoToken, Tok(FALSE, TRUE, "override"), Tok(FALSE, FALSE, "override"), Tok(TRUE, FALSE, "") }

AuthorizationTokens == { NoToken, Tok(FALSE, TRUE, "caller") }

PipeBodies == { PipeBody(FALSE, ""), PipeBody(TRUE, ""), PipeBody(TRUE, "hello"),
                PipeBody(TRUE, "a b") }

PipeResponses ==
  { PipeResponse(TRUE, 0, ""),
    PipeResponse(FALSE, 200, "{\"a\":\"b\"}"),
    PipeResponse(FALSE, 200, "null"),
    PipeResponse(FALSE, 200, "<html>"),
    PipeResponse(FALSE, 201, ""),
    PipeResponse(FALSE, 429, "{\"a\":\"b\"}"),
    PipeResponse(FALSE, 404, "null"),
    PipeResponse(FALSE, 502, "<html>") }

(* what a second call would be answered *)
SecondResponses == { PipeResponse(TRUE, 0, ""), PipeResponse(FALSE, 200, "{\"q\":\"x\"}") }

InitPipe ==
  /\ variant \in Variants
  /\ env \in { Env(u, t) : u \in BOOLEAN, t \in EnvTokens }
  /\ apiKeySet = FALSE
  /\ route = "aipipe"
  /\ headers \in { Headers(x, a) : x \in OverrideTokens, a \in AuthorizationTokens }
  /\ body \in PipeBodies
  /\ pc = "start"
  /\ fetches = 0
  /\ sent = NoPipeCall
  /\ upstream \in PipeResponses \X SecondResponses
  /\ res = NoPipeResult

PipeReply(result) ==
  /\ res' = [count |-> res.count + 1, status |-> result.status, data |-> result.data,
             mode |-> result.mode, authMode |-> result.authMode]
  /\ pc' = "done"

(* the handler answers without calling upstream: the mock, B's 500 without
   a URL, or the 401 of A and B *)
PipeLocal ==
  /\ pc = "start"
  /\ \E now \in Clock :
       /\ ~PipeStart(variant, env, headers, body, now).call
       /\ PipeReply(PipeResult(PipeStart(variant, env, headers, body, now).status,
                               PipeStart(variant, env, headers, body, now).data,
                               EarlyMode(variant, env),
                               EarlyAuthMode(variant, env, headers)))
  /\ UNCHANGED <<variant, env, apiKeySet, route, headers, body, fetches, sent, upstream>>

(* the request body is posted to AIPIPE_URL with the picked token as
   Authorization; the handler suspends in await fetch *)
PipeFetch ==
  /\ pc = "start"
  /\ \E now \in Clock : PipeStart(variant, env, headers, body, now).call
  /\ sent' = PipeCall(Truthy(PickToken(variant, env, headers)),
                      PickToken(variant, env, headers), body)
  /\ fetches' = fetches + 1
  /\ pc' = "awaiting"
  /\ UNCHANGED <<variant, env, apiKeySet, route, headers, body, upstream, res>>

(* a handler that calls again after a failed call *)
PipeAnswerRetrying ==
  /\ pc = "awaiting"
  /\ IF upstream[1].threw \/ ~Ok(upstream[1])
     THEN pc' = "start" /\ res' = res
     ELSE PipeReply(PipeAfterFetch(variant, upstream[1], env, headers))
  /\ UNCHANGED <<variant, env, apiKeySet, route, headers, body, fetches, sent, upstream>>

(* the call settles with the network's first answer; the rest of the
   handler runs to its response: no variant calls a second time *)
PipeAnswer ==
  /\ pc = "awaiting"
  /\ PipeReply(PipeAfterFetch(variant, upstream[1], env, headers))
  /\ UNCHANGED <<variant, env, apiKeySet, route, headers, body, fetches, sent, upstream>>

NextPipe ==
  \/ PipeLocal
  \/ PipeFetch
  \/ PipeAnswer

SpecPipe == InitPipe /\ [][NextPipe]_vars

(* ---------------------------- GET /api/search -------------------------- *)
(* A lines 36-67, B lines 318-351, C lines 739-770, D part_000 lines       *)
(* 180-207.  The request is its q parameter; apiKeySet is the Google key   *)
(* and engine id.                                                           *)

SearchQuery(q) == [q |-> q]
NoSearchCall == SearchQuery("")

(* String.prototype.trim on the q parameter *)
TrimQ(q) == IF q = " " THEN "" ELSE q

(* the q the variant tests and sends: variant B does not trim it *)
SearchQ(v, b) == IF v = "B" THEN b.q ELSE TrimQ(b.q)

(* the reply before any upstream call, if there is one: 400 without q, and
   without the keys 500 (A, C, D) or a 200 carrying ok: false (B) *)
SearchStart(v, k, b) ==
  IF SearchQ(v, b) = "" THEN [call |-> FALSE, result |-> Result(400, "error", NoMessage)]
  ELSE IF ~k
  THEN [call |-> FALSE,
        result |-> Result(IF v = "B" THEN 200 ELSE 500, "error", NoMessage)]
  ELSE [call |-> TRUE, result |-> Result(0, "none", NoMessage)]

(* variant A, lines 55-66 *)
SearchAfterFetchA(r) ==
  IF r.threw THEN Result(500, "error", NoMessage)
  ELSE IF ~r.ok THEN Result(r.status, "upstream", NoMessage)
  ELSE IF ~r.bodyIsJson \/ r.dataKind = "null" THEN Result(500, "error", NoMessage)
  ELSE Result(200, "items", NoMessage)

(* variant B, lines 339-350: r.ok is not looked at *)
SearchAfterFetchB(r) ==
  IF r.threw \/ ~r.bodyIsJson \/ r.dataKind = "null" THEN Result(500, "error", NoMessage)
  ELSE Result(200, "items", NoMessage)

(* variants C and D, lines 753-768 *)
SearchAfterFetchC(r) ==
  IF r.threw \/ ~r.bodyIsJson THEN Result(500, "error", NoMessage)
  ELSE IF ~r.ok THEN Result(r.status, "upstream", NoMessage)
  ELSE IF r.dataKind = "null" THEN Result(500, "error", NoMessage)
  ELSE Result(200, "items", NoMessage)

SearchAfterFetch(v, r) ==
  CASE v = "A" -> SearchAfterFetchA(r)
    [] v = "B" -> SearchAfterFetchB(r)
    [] OTHER -> SearchAfterFetchC(r)

(* ------------------------- two requests in flight ---------------------- *)
(* The server process with two requests to any of the four routes, each    *)
(* run by its own invocation of an async handler.  variant, env and        *)
(* apiKeySet are the process's code and configuration; route, headers,     *)
(* body, pc, fetches, sent, upstream and res are per request.  A handler   *)
(* runs without interruption up to its await fetch and again from the      *)
(* settling of fetch to its reply; the two requests interleave at these    *)
(* points.                                                                  *)

Requests == {1, 2}

(* everything the handler does before its first suspension: a reply, or
   the payload it posts *)
Begin(v, e, k, rt, h, b, now) ==
  CASE rt = "gemini" ->
         IF ~k THEN [call |-> FALSE, payload |-> NoPayload,
                     result |-> Result(500, "error", NoMessage)]
         ELSE IF RequestOutcome(v, b) = "reject"
         THEN [call |-> FALSE, payload |-> NoPayload,
               result |-> Result(400, "error", NoMessage)]
         ELSE IF RequestOutcome(v, b) = "throw"
         THEN [call |-> FALSE, payload |-> NoPayload,
               result |-> Result(500, "error", NoMessage)]
         ELSE [call |-> TRUE, payload |-> BuildPayload(v, b),
               result |-> Result(0, "none", NoMessage)]
    [] rt = "groq" ->
         IF ~k THEN [call |-> FALSE, payload |-> NoGroqPayload,
                     result |-> Result(500, "error", NoMessage)]
         ELSE IF GroqRejects(v, b)
         THEN [call |-> FALSE, payload |-> NoGroqPayload,
               result |-> Result(400, "error", NoMessage)]
         ELSE [call |-> TRUE, payload |-> BuildGroqPayload(v, b),
               result |-> Result(0, "none", NoMessage)]
    [] rt = "aipipe" ->
         IF PipeStart(v, e, h, b, now).call
         THEN [call |-> TRUE,
               payload |-> PipeCall(Truthy(PickToken(v, e, h)), PickToken(v, e, h), b),
               result |-> PipeResult(0, JNull, "", "")]
         ELSE [call |-> FALSE, payload |-> NoPipeCall,
               result |-> PipeResult(PipeStart(v, e, h, b, now).status,
                                     PipeStart(v, e, h, b, now).data,
                                     EarlyMode(v, e), EarlyAuthMode(v, e, h))]
    [] OTHER ->
         [call |-> SearchStart(v, k, b).call,
          payload |-> IF SearchStart(v, k, b).call THEN SearchQuery(SearchQ(v, b))
                      ELSE NoSearchCall,
          result |-> SearchStart(v, k, b).result]

(* everything the handler does once fetch has settled with answer r *)
Finish(v, e, rt, h, r, now) ==
  CASE rt = "gemini" -> AfterFetch(v, r, now)
    [] rt = "groq" -> GroqAfterFetch(v, r)
    [] rt = "aipipe" -> PipeAfterFetch(v, r, e, h)
    [] OTHER -> SearchAfterFetch(v, r)

(* the requests drawn: <<route, headers, body>> *)
ServerRequests ==
  { <<"gemini", NoHeaders, b>> :
      b \in { Body(DefaultModel, "", "array", <<Msg("user", TRUE, "hi", "")>>,
                   "absent", <<>>, FALSE, 0),
              Body(DefaultModel, "SYS", "array", <<Msg("assistant", TRUE, "yo", "")>>,
                   "absent", <<>>, TRUE, 7),
              Body(DefaultModel, "", "other", <<>>, "absent", <<>>, FALSE, 0) } }
  \cup
  { <<"groq", NoHeaders, b>> :
      b \in { Body(DefaultGroqModel, "", "array", <<Msg("user", TRUE, "hi", "")>>,
                   "absent", <<>>, FALSE, 0),
              Body(DefaultGroqModel, "", "other", <<>>, "absent", <<>>, TRUE, 7) } }
  \cup
  { <<"aipipe", Headers(x, NoToken), b>> :
      x \in {NoToken, Tok(FALSE, TRUE, "override")},
      b \in {PipeBody(TRUE, "hello"), PipeBody(TRUE, "")} }
  \cup
  { <<"search", NoHeaders, SearchQuery(q)>> : q \in {"", "cats"} }

(* the answers fetch settles with, by route *)
ServerAnswers(rt) ==
  IF rt = "aipipe"
  THEN { PipeResponse(TRUE, 0, ""), PipeResponse(FALSE, 200, "{\"a\":\"b\"}"),
         PipeResponse(FALSE, 200, "<html>"), PipeResponse(FALSE, 429, "{\"a\":\"b\"}") }
  ELSE CannedResponses \cup { Response(FALSE, TRUE, 200, FALSE, "null", "absent", FALSE, <<>>) }

NoCall(rt) ==
  CASE rt = "gemini" -> NoPayload
    [] rt = "groq" -> NoGroqPayload
    [] rt = "aipipe" -> NoPipeCall
    [] OTHER -> NoSearchCall

NoAnswer(rt) == IF rt = "aipipe" THEN PipeResponse(FALSE, 0, "") ELSE NoResponse

NoReply(rt) == IF rt = "aipipe" THEN PipeResult(0, JNull, "", "") ELSE Result(0, "none", NoMessage)

InitServer ==
  /\ variant \in Variants
  /\ env \in { Env(u, t) : u \in BOOLEAN, t \in {NoToken, Tok(FALSE, TRUE, "envtok")} }
  /\ apiKeySet \in BOOLEAN
  /\ \E rq \in [Requests -> ServerRequests] :
       /\ route = [i \in Requests |-> rq[i][1]]
       /\ headers = [i \in Requests |-> rq[i][2]]
       /\ body = [i \in Requests |-> rq[i][3]]
  /\ pc = [i \in Requests |-> "start"]
  /\ fetches = [i \in Requests |-> 0]
  /\ sent = [i \in Requests |-> NoCall(route[i])]
  /\ upstream = [i \in Requests |-> NoAnswer(route[i])]
  /\ res = [i \in Requests |-> [count |-> 0, reply |-> NoReply(route[i])]]

(* a handler that answers nothing and ends *)
RespondNothing(i, result) ==
  /\ res' = res
  /\ pc' = [pc EXCEPT ![i] = "done"]

(* res.json(...) / res.status(...).json(...): request i is answered and
   its handler returns *)
Respond(i, result) ==
  /\ res' = [res EXCEPT ![i] = [count |-> @.count + 1, reply |-> result]]
  /\ pc' = [pc EXCEPT ![i] = "done"]

(* request i is answered before any upstream call *)
ServerLocal(i) ==
  /\ pc[i] = "start"
  /\ \E now \in Clock :
       /\ ~Begin(variant, env, apiKeySet, route[i], headers[i], body[i], now).call
       /\ Respond(i, Begin(variant, env, apiKeySet, route[i], headers[i], body[i], now).result)
  /\ UNCHANGED <<variant, env, apiKeySet, route, headers, body, fetches, sent, upstream>>

(* a handler that builds its payload from the body of the other request,
   as one that keeps the request in a module-level variable would *)
ServerFetchCrossed(i) ==
  /\ pc[i] = "start"
  /\ \E now \in Clock, j \in Requests \ {i} :
       /\ Begin(variant, env, apiKeySet, route[i], headers[i], body[i], now).call
       /\ sent' = [sent EXCEPT ![i] =
                     IF route[j] = route[i]
                     THEN Begin(variant, env, apiKeySet, route[i], headers[i], body[j], now).payload
                     ELSE Begin(variant, env, apiKeySet, route[i], headers[i], body[i], now).payload]
  /\ fetches' = [fetches EXCEPT ![i] = @ + 1]
  /\ pc' = [pc EXCEPT ![i] = "awaiting"]
  /\ UNCHANGED <<variant, env, apiKeySet, route, headers, body, upstream, res>>

(* the handler of request i posts its payload and suspends in await fetch *)
ServerFetch(i) ==
  /\ pc[i] = "start"
  /\ \E now \in Clock :
       /\ Begin(variant, env, apiKeySet, route[i], headers[i], body[i], now).call
       /\ sent' = [sent EXCEPT ![i] =
                     Begin(variant, env, apiKeySet, route[i], headers[i], body[i], now).payload]
  /\ fetches' = [fetches EXCEPT ![i] = @ + 1]
  /\ pc' = [pc EXCEPT ![i] = "awaiting"]
  /\ UNCHANGED <<variant, env, apiKeySet, route, headers, body, upstream, res>>

(* the fetch of request i settles; its handler resumes and runs to its reply *)
ServerSettle(i) ==
  /\ pc[i] = "awaiting"
  /\ \E r \in ServerAnswers(route[i]), now \in Clock :
       /\ upstream' = [upstream EXCEPT ![i] = r]
       /\ Respond(i, Finish(variant, env, route[i], headers[i], r, now))
  /\ UNCHANGED <<variant, env, apiKeySet, route, headers, body, fetches, sent>>

NextServer ==
  \E i \in Requests :
    \/ ServerLocal(i)
    \/ ServerFetch(i)
    \/ ServerSettle(i)

SpecServer == InitServer /\ [][NextServer]_vars

(* ------------------------------ claims --------------------------------- *)

(* the payload has been posted upstream *)
Posted == pc \in {"awaiting", "done"} /\ fetches = 1

InputMessages == ArrayOr(body.messagesKind, body.messages)

NonSystem(messages) == SelectSeq(messages, LAMBDA m : m.role # "system")

Count(seq, P(_)) == Cardinality({i \in 1..Len(seq) : P(seq[i])})

(* the handler answered 200 with a normalized message *)
Normalized == pc = "done" /\ res.kind = "chat"

(* C1: in every variant, each user message becomes a native turn of role
   "user", each assistant message one of role "model", and each tool message
   a turn whose part is a functionResponse and not a text part: the posted
   contents hold as many user-role text turns as there are user messages,
   as many model-role turns as assistant messages, and as many
   functionResponse turns as tool messages. *)
C1_RoleMapping ==
  Posted =>
    /\ Count(sent.contents, LAMBDA t : t.part.kind = "functionResponse")
         = Count(InputMessages, LAMBDA m : m.role = "tool")
    /\ Count(sent.contents, LAMBDA t : t.role = "model" /\ t.part.kind = "text")
         = Count(InputMessages, LAMBDA m : m.role = "assistant")
    /\ Count(sent.contents, LAMBDA t : t.role = "user" /\ t.part.kind = "text")
         = Count(InputMessages, LAMBDA m : m.role = "user")

(* a native turn carries the message it came from: its text is the
   message's content, or it is the function result of a tool message *)
CameFrom(t, m) ==
  IF t.part.kind = "text"
  THEN m.role # "tool" /\ t.part.text = StrOr(m.hasContent, m.content)
  ELSE m.role = "tool"

(* C2: the posted contents are order-isomorphic to the input messages with
   the system turns removed: one native turn per non-system message, in the
   same order, none dropped, duplicated or reordered. *)
C2_OrderIsomorphic ==
  Posted =>
    LET kept == NonSystem(InputMessages)
    IN /\ Len(sent.contents) = Len(kept)
       /\ \A k \in 1..Len(kept) : CameFrom(sent.contents[k], kept[k])

SystemTurns(messages) == SelectSeq(messages, LAMBDA m : m.role = "system")

(* C3: with several system turns and no explicit system field, the posted
   system instruction is the content of the last system turn, and no system
   turn is among the posted contents. *)
C3_LastSystemTurnWins ==
  (Posted /\ body.system = "" /\ Len(SystemTurns(InputMessages)) >= 2) =>
    LET sys == SystemTurns(InputMessages)
    IN /\ sent.systemInstruction = [has |-> TRUE, text |-> sys[Len(sys)].content]
       /\ Len(sent.contents) = Len(NonSystem(InputMessages))
       /\ \A k \in 1..Len(sent.contents) : sent.contents[k].role # "system"

(* C4: with a non-empty explicit system text and system turns in the
   messages, the posted system instruction is the explicit text. *)
C4_ExplicitSystemWins ==
  (Posted /\ body.system # "" /\ Len(SystemTurns(InputMessages)) >= 1) =>
    sent.systemInstruction = [has |-> TRUE, text |-> body.system]

(* the variants whose translation builds function-result payloads *)
InlineVariant == variant \in {"C", "D"}

NotJson(s) == s # "" /\ ~JSONParse(s).ok

(* the request reached the translation with a well-formed message list *)
Translatable ==
  /\ pc # "start"
  /\ apiKeySet
  /\ body.messagesKind = "array"
  /\ \A i \in 1..Len(body.messages) : body.messages[i].kind = "object"

(* the function-result payloads posted for the tool messages, in order *)
ToolPayloads == SelectSeq(sent.contents, LAMBDA t : t.part.kind = "functionResponse")
ToolMessages == SelectSeq(InputMessages, LAMBDA m : m.role = "tool")

(* C5 as stated: a tool turn whose content is not valid JSON does not fail
   the translation, and its function-result payload is exactly
   {content: <the original string>}. *)
C5_WrappedAsContent ==
  (InlineVariant /\ Translatable) =>
    /\ Posted
    /\ Len(ToolPayloads) = Len(ToolMessages)
    /\ \A k \in 1..Len(ToolMessages) :
         NotJson(ToolMessages[k].content) =>
           ToolPayloads[k].part.response
             = JObj(<<KV("content", JStr(ToolMessages[k].content))>>)

(* C5 amended: a tool turn whose content is not valid JSON does not fail
   the translation, and its function-result payload is exactly
   {raw: <the original string>}. *)
C5_WrappedAsRaw ==
  (InlineVariant /\ Translatable) =>
    /\ Posted
    /\ Len(ToolPayloads) = Len(ToolMessages)
    /\ \A k \in 1..Len(ToolMessages) :
         NotJson(ToolMessages[k].content) =>
           /\ ToolPayloads[k].part.response
                = JObj(<<KV("raw", JStr(ToolMessages[k].content))>>)
           /\ JSONStringify(ToolPayloads[k].part.response)
                \in {"{\"raw\":\"not json\"}", "{\"raw\":\"{oops\"}"}

(* a request with the tool content "not json" was posted with its payload *)
C5_Witness ==
  /\ variant = "C"
  /\ Posted
  /\ \E k \in 1..Len(sent.contents) :
       /\ sent.contents[k].part.kind = "functionResponse"
       /\ JSONStringify(sent.contents[k].part.response) = "{\"raw\":\"not json\"}"

(* C6: the response value of every posted function-result payload is a JSON
   object, whatever the tool turn's content. *)
C6_ResponseAlwaysObject ==
  Posted =>
    \A k \in 1..Len(sent.contents) :
      sent.contents[k].part.kind = "functionResponse" =>
        sent.contents[k].part.response.kind = "object"

(* C7: whatever the shape of the request body, the handler never answers
   from its exception path (HTTP 500) before the payload is posted. *)
C7_NeverRaises ==
  ~(pc = "done" /\ apiKeySet /\ fetches = 0 /\ res.status = 500)

(* the upstream answered 2xx with a JSON object holding no candidate *)
NoCandidate ==
  /\ pc = "done" /\ fetches = 1
  /\ ~upstream.threw /\ upstream.ok /\ upstream.bodyIsJson
  /\ upstream.dataKind = "object"
  /\ upstream.candidates \in {"absent", "empty"}

(* C8: a successful upstream response without a candidate is normalized,
   without failing, to exactly {role: "assistant", content: ""}: role
   "assistant", empty content, no tool_calls key. *)
C8_NoCandidateMessage ==
  NoCandidate =>
    /\ res.status = 200
    /\ res.message = [hasRole |-> TRUE, role |-> "assistant", content |-> "",
                      hasToolCalls |-> FALSE, tool_calls |-> <<>>]

(* the function-call fragments of the first candidate, in order *)
Fragments == SelectSeq(FirstParts(upstream), LAMBDA p : p.hasCall)

(* C9: the normalized message has the tool_calls key if and only if the
   first candidate holds at least one function-call fragment. *)
C9_ToolCallsIffFragment ==
  Normalized => (res.message.hasToolCalls <=> Len(Fragments) > 0)

(* C10 as stated: one ToolCall per function-call fragment, in fragment
   order, with the fragment's name and the serialization of its args
   object, or of the empty object when it has none. *)
C10_OneCallPerFragment ==
  Normalized =>
    /\ Len(res.message.tool_calls) = Len(Fragments)
    /\ \A i \in 1..Len(Fragments) :
         /\ res.message.tool_calls[i].name = Fragments[i].name
         /\ res.message.tool_calls[i].arguments
              = JSONStringify(IF Fragments[i].hasArgs THEN Fragments[i].args
                              ELSE EmptyObject)

(* the fragments a variant turns into ToolCalls: all of them in A and B,
   those with a non-empty name in C and D *)
Accepted == SelectSeq(Fragments, LAMBDA p : InlineVariant => p.name # "")

(* C10 amended: one ToolCall per accepted function-call fragment (every
   fragment in variants A and B, every fragment with a non-empty name in
   variants C and D), in fragment order, with the fragment's name and the
   serialization of its args object; without args, of its arguments object
   in variants C and D; otherwise of the empty object. *)
C10_OneCallPerAcceptedFragment ==
  Normalized =>
    /\ Len(res.message.tool_calls) = Len(Accepted)
    /\ \A i \in 1..Len(Accepted) :
         /\ res.message.tool_calls[i].name = Accepted[i].name
         /\ res.message.tool_calls[i].arguments
              = JSONStringify(
                  IF Accepted[i].hasArgs THEN Accepted[i].args
                  ELSE IF InlineVariant /\ Accepted[i].hasArguments
                       THEN Accepted[i].arguments
                  ELSE EmptyObject)

(* a response with three fragments, one of them nameless, was normalized by
   variant C to two ToolCalls in fragment order *)
C10_Witness ==
  /\ variant = "C"
  /\ Normalized
  /\ Len(Fragments) = 3
  /\ Len(res.message.tool_calls) = 2
  /\ res.message.tool_calls[1].name = "g"
  /\ res.message.tool_calls[1].arguments = "{}"
  /\ res.message.tool_calls[2].name = "f"
  /\ res.message.tool_calls[2].arguments = "{\"q\":\"x\"}"

(* C11: within one normalized response the ids of the ToolCalls are
   pairwise distinct, also when all are generated in the same millisecond. *)
C11_DistinctIds ==
  Normalized =>
    \A i, j \in 1..Len(res.message.tool_calls) :
      i # j => res.message.tool_calls[i].id # res.message.tool_calls[j].id

(* variant C normalized three function calls in one millisecond *)
C11_Witness ==
  /\ variant = "C"
  /\ Normalized
  /\ Len(res.message.tool_calls) = 3
  /\ \A i \in 1..3 : res.message.tool_calls[i].id.ms = res.message.tool_calls[1].id.ms

InputTools == ArrayOr(body.toolsKind, body.tools)

(* a declaration of type function whose function object carries a name *)
WellFormedTools ==
  SelectSeq(InputTools, LAMBDA t :
    t.kind = "object" /\ t.type = "function" /\ t.hasFunction /\ t.name # "")

(* the declarations a variant keeps: variant B also keeps a function
   object without a name *)
DeclaredTools ==
  SelectSeq(InputTools, LAMBDA t :
    t.kind = "object" /\ t.type = "function" /\ t.hasFunction
      /\ (variant # "B" => t.name # ""))

(* C12 as stated: every tool declaration becomes a native function
   declaration with a parameters object: {type: "object", properties: {}}
   when the declaration has none, and with description "" when it has none. *)
C12_DefaultSchema ==
  Posted =>
    LET fd == sent.tools.functionDeclarations
    IN /\ Len(fd) = Len(WellFormedTools)
       /\ \A i \in 1..Len(WellFormedTools) :
            /\ fd[i].name = WellFormedTools[i].name
            /\ fd[i].description = WellFormedTools[i].description
            /\ fd[i].parameters
                 = IF WellFormedTools[i].hasParameters
                   THEN WellFormedTools[i].parameters
                   ELSE JObj(<<KV("type", JStr("object")),
                               KV("properties", EmptyObject)>>)

(* C12 amended: every tool declaration the variant keeps (type function
   with a named function object; in variant B the name may be missing)
   becomes a native function declaration that always carries a parameters
   object: the declaration's own, or without one {type: "object"} in
   variants A, C and D and {} in variant B; a missing description becomes
   the empty string. *)
C12_DefaultObject ==
  Posted =>
    LET fd == sent.tools.functionDeclarations
    IN /\ Len(fd) = Len(DeclaredTools)
       /\ sent.tools.has <=> Len(DeclaredTools) > 0
       /\ \A i \in 1..Len(DeclaredTools) :
            /\ fd[i].name = DeclaredTools[i].name
            /\ fd[i].description = DeclaredTools[i].description
            /\ fd[i].parameters.kind = "object"
            /\ fd[i].parameters
                 = IF DeclaredTools[i].hasParameters THEN DeclaredTools[i].parameters
                   ELSE IF variant = "B" THEN JObj(<<>>)
                   ELSE JObj(<<KV("type", JStr("object"))>>)

(* variant A posted a declaration without parameters with {type: "object"} *)
C12_Witness ==
  /\ variant = "A"
  /\ Posted
  /\ Len(InputTools) = 1
  /\ ~InputTools[1].hasParameters
  /\ Len(sent.tools.functionDeclarations) = 1
  /\ JSONStringify(sent.tools.functionDeclarations[1].parameters)
       = "{\"type\":\"object\"}"

(* C13: the posted request always carries a temperature: the request's own
   when it supplies one (0 included), 0.3 otherwise. *)
C13_Temperature ==
  Posted =>
    sent.temperature
      = [has |-> TRUE,
         value |-> IF body.hasTemperature THEN body.temperature ELSE 3]

(* the Groq handler has decided what to do with the request: it answered
   without calling upstream, or it posted the payload *)
GroqDecided == apiKeySet /\ pc \in {"awaiting", "done"}

(* C14: a request to /api/groq/chat whose messages value is not a sequence
   is not rejected: it is forwarded upstream with messages equal to the
   empty list. *)
C14_NonSequenceForwardedEmpty ==
  (GroqDecided /\ body.messagesKind # "array") =>
    /\ fetches = 1
    /\ sent.messagesKind = "array"
    /\ sent.messages = <<>>

(* the value of a key of a JSON object (null when there is none) *)
Field(obj, key) ==
  LET idx == {i \in 1..Len(obj.members) : obj.members[i].key = key}
  IN IF obj.kind = "object" /\ idx # {} THEN obj.members[CHOOSE i \in idx : TRUE].value
     ELSE JNull

(* C15: with an AI Pipe URL configured and no credential available (no
   override header, no configured token) the gateway makes no upstream call
   and answers 401. *)
C15_UnauthorizedWithoutCall ==
  (env.AIPIPE_URL /\ headers.xAipipeAuth = NoToken /\ env.AIPIPE_AUTH = NoToken) =>
    /\ fetches = 0
    /\ pc # "awaiting"
    /\ pc = "done" => res.status = 401

(* C16: without an AI Pipe URL, for every input string (the empty one
   included) the gateway makes no upstream call and answers 200 with engine
   "mock", received_input equal to the input, the steps parse, analyze and
   summarize all "ok", and summary AI Pipe mock processed: "<input>". *)
C16_MockEchoesInput ==
  (~env.AIPIPE_URL /\ body.hasInput) =>
    /\ fetches = 0
    /\ pc # "awaiting"
    /\ pc = "done" =>
         /\ res.status = 200
         /\ Field(res.data, "engine") = JStr("mock")
         /\ Field(res.data, "received_input") = JStr(body.input)
         /\ Field(res.data, "steps")
              = JArr(<<JObj(<<KV("name", JStr("parse")), KV("status", JStr("ok"))>>),
                       JObj(<<KV("name", JStr("analyze")), KV("status", JStr("ok"))>>),
                       JObj(<<KV("name", JStr("summarize")), KV("status", JStr("ok"))>>)>>)
         /\ Field(res.data, "summary")
              = JStr("AI Pipe mock processed: \"" \o body.input \o "\"")

(* the first upstream call has been answered and the handler has replied *)
PipeAnswered == pc = "done" /\ fetches >= 1

(* a second call would be answered 2xx with a JSON body *)
SecondWouldSucceed ==
  ~upstream[2].threw /\ Ok(upstream[2]) /\ JSONParse(upstream[2].text).ok

(* C17: when the first upstream call fails with a transport fault and a
   second call would succeed, the gateway makes exactly two upstream calls
   and the caller receives the body of the second. *)
C17_RetriesOnce ==
  (PipeAnswered /\ upstream[1].threw /\ SecondWouldSucceed) =>
    /\ fetches = 2
    /\ res.status \in 200..299
    /\ res.data = JSONParse(upstream[2].text).value

(* C18: the number of upstream calls of a request never exceeds 2, and
   when the first call is answered with a well-formed non-2xx response
   exactly one call is made: such a failure is never retried. *)
C18_NoRetryOfNon2xx ==
  /\ fetches <= 2
  /\ (fetches >= 1 /\ ~upstream[1].threw /\ ~Ok(upstream[1])) => fetches = 1

(* the handler replied after a non-2xx first answer while a second call
   would have succeeded *)
C18_Witness ==
  /\ PipeAnswered
  /\ ~upstream[1].threw /\ upstream[1].status = 429
  /\ SecondWouldSucceed
  /\ fetches = 1

(* C19: when the upstream answers non-2xx with a parseable JSON body, the
   reply has the upstream's status and carries the upstream body: the reply
   is the parsed body itself, or (variant A) an error object whose detail
   is the upstream body text, never an error without it. *)
C19_StatusAndBodyExposed ==
  (PipeAnswered /\ ~upstream[1].threw /\ ~Ok(upstream[1])
     /\ JSONParse(upstream[1].text).ok) =>
    /\ res.status = upstream[1].status
    /\ \/ res.data = JSONParse(upstream[1].text).value
       \/ Field(res.data, "detail") = JStr(upstream[1].text)

(* variant A answered an upstream 429 whose body is a JSON object *)
C19_Witness ==
  /\ variant = "A"
  /\ PipeAnswered
  /\ upstream[1] = PipeResponse(FALSE, 429, "{\"a\":\"b\"}")
  /\ res.status = 429

(* C20: when the upstream answers 2xx with a body that is not valid JSON,
   the reply is never 2xx. *)
C20_NonJsonSuccessIsAnError ==
  (PipeAnswered /\ ~upstream[1].threw /\ Ok(upstream[1])
     /\ ~JSONParse(upstream[1].text).ok) =>
    res.status \notin 200..299

(* the Authorization sent upstream is the given credential: the same
   secret, whatever blanks or Bearer prefix the variant strips or adds *)
SentFrom(t) ==
  /\ sent.hasAuthorization
  /\ Truthy(t)
  /\ sent.authorization.secret = t.secret
  /\ Truthy(Trim(t)) \/ sent.authorization = t

(* the values of x-aipipe-auth-mode that name the override header *)
OverrideModes == {"header", "client-x-aipipe-auth"}

(* C21: for every AI Pipe request the gateway forwards (a URL is
   configured) and has answered, x-aipipe-auth-mode names the source of the
   credential sent upstream: "none" exactly when no Authorization is sent,
   the override value exactly when the token sent is the one of the
   x-aipipe-auth header, "env" exactly when it is the configured
   AIPIPE_AUTH; with both present, the mode is the one whose token is sent. *)
C21_AuthModeNamesSource ==
  (env.AIPIPE_URL /\ pc = "done") =>
    /\ res.authMode = "none" <=> ~sent.hasAuthorization
    /\ res.authMode \in OverrideModes <=> SentFrom(headers.xAipipeAuth)
    /\ res.authMode = "env" <=> SentFrom(env.AIPIPE_AUTH)

(* what request i is sent upstream and answered, computed from its own
   route, headers and body, the answer to its own call, and the process
   configuration only *)
OwnPayload(i) ==
  { Begin(variant, env, apiKeySet, route[i], headers[i], body[i], now).payload :
      now \in Clock }

OwnReply(i) ==
  IF fetches[i] = 0
  THEN { Begin(variant, env, apiKeySet, route[i], headers[i], body[i], now).result :
           now \in Clock }
  ELSE { Finish(variant, env, route[i], headers[i], upstream[i], now) : now \in Clock }

(* C22: for any interleaving of two concurrent requests at their awaited
   upstream calls, the payload sent upstream and the response returned for
   a request depend only on that request's own body and headers and on the
   process configuration. *)
C22_RequestsIsolated ==
  \A i \in Requests :
    /\ fetches[i] >= 1 => sent[i] \in OwnPayload(i)
    /\ pc[i] = "done" => res[i].reply \in OwnReply(i)

(* request 1 suspended, request 2 ran to its own upstream call, request 1
   was answered while request 2 is still suspended; the two are requests to
   the same route with different bodies *)
C22_Witness ==
  /\ route[1] = route[2]
  /\ body[1] # body[2]
  /\ fetches[1] = 1 /\ fetches[2] = 1
  /\ pc[1] = "done" /\ pc[2] = "awaiting"
  /\ sent[1] # sent[2]

(* C23: every request to an API route is answered exactly once on every
   control path, whatever the upstream does: never twice, and a handler
   that has finished has sent its response. *)
C23_ExactlyOneResponse ==
  \A i \in Requests :
    /\ res[i].count <= 1
    /\ pc[i] = "done" <=> res[i].count = 1

(* requests to every route have been answered once after their upstream
   call threw, answered non-2xx, or answered a body that is no JSON *)
C23_Witness ==
  /\ \A i \in Requests : pc[i] = "done" /\ res[i].count = 1 /\ fetches[i] = 1
  /\ route[1] = "aipipe" /\ upstream[1].threw
  /\ route[2] = "search" /\ ~upstream[2].threw /\ ~upstream[2].bodyIsJson

====
